---- MODULE Spec2Model ----
(***************************************************************************)
(* The lesson quiz of LessonScreen (src/unnamed/part_002, lines 1-334) and *)
(* the advanced quiz of AdvancedLessonScreen (lines 606-1197).  One screen *)
(* is mounted per behaviour; the useState cells the two components both    *)
(* declare (loading, words, currentQuestion, showResult, score) are the    *)
(* same variables here.                                                    *)
(*                                                                         *)
(* The state is the component's useState cells, the clock read by          *)
(* Date.now(), the completeLesson calls that are still running, the alert  *)
(* dialogs on screen and the navigation state.  Indices are as in the      *)
(* source: currentQuestion counts from 0, so the question on screen is     *)
(* questions[currentQuestion + 1] of the TLA+ sequence.                    *)
(*                                                                         *)
(* The tab screens AITutorScreen (src/frontend/app/(tabs)/ai-tutor.tsx),   *)
(* CommunityScreen (community.tsx) and PrayerScreen (prayer.tsx) have      *)
(* their own cells (tabsOnly) and share loading, alerts and the list of    *)
(* running calls.                                                          *)
(*                                                                         *)
(* Specifications:                                                         *)
(*   Spec            LessonScreen as the learner can drive it: a handler   *)
(*                   runs only when the control it is bound to is rendered *)
(*                   and enabled;                                          *)
(*   HandlerSpec     its handlers as operations of the mounted component,  *)
(*                   invoked in any order, guarded only by their own code; *)
(*   LiveSpec        the learner who keeps going, with fairness;           *)
(*   GenSpec         the question generator of startQuiz on its own;       *)
(*   AdvSpec         AdvancedLessonScreen as it can be driven;             *)
(*   AdvHandlerSpec  its submitAnswer called in any state;                 *)
(*   TutorSpec       the tutor chat, every request settling;               *)
(*   CommunitySpec   the community screen and its running loads;           *)
(*   PrayerSpec      the prayer screen over timetables, clocks, locales.   *)
(***************************************************************************)
EXTENDS Integers, Sequences, FiniteSets, TLC

\* ------------------------------------------------------------------ bounds

\* Longest vocabulary list a lesson reply carries.
MaxWords == 2

\* Clock range, in steps of half a second: time_spent reaches 1.
MaxTicks == 2

\* completeLesson invocations running at the same time.
MaxCalls == 2

\* Responses recorded per run when handlers are invoked out of order.
MaxAnswers == 3

\* --------------------------------------------------------------- constants

\* Longest vocabulary list given to the question generator on its own.
MaxGenWords == 5

\* Most questions in a quiz POST /api/quiz/advanced returns.
MaxQuizLen == 2

\* Most requests of the advanced screen in flight at once.
MaxOps == 2

\* Most dialogs of the advanced screen waiting at once: a reply that raises
\* one more arrives after one is dismissed.
MaxAlerts == 2

\* Most requests of the community screen in flight at once.
MaxRequests == 3

\* Clock times a prayer timetable is drawn from: the first MaxSlots of Slots.
MaxSlots == 7

\* Questions put to the tutor in one conversation.
MaxExchanges == 2

\* Largest score the advanced screen is followed to.
MaxScore == 3

\* total_time of the completion request (line 144).
TotalTime == 900

\* Milliseconds per second, the divisor of time_spent (lines 102, 142).
MsPerSecond == 1000

\* Distractors kept per question: slice(0, 3) (line 71).
WrongCount == 3

\* Line 835: an overall pronunciation score from here on counts as correct.
PassScore == 70

\* The clock advances by half a second per Tick.
TickMs == MsPerSecond \div 2


\* useLocalSearchParams().id (line 32).
id == "1"

\* selectedAnswer's initial and cleared value (lines 38, 124).
null == "<null>"

\* Meanings a lesson reply may carry; two words may share a meaning.
Meanings == {"God", "Lord"}

VARIABLES
    loading,            \* line 33
    words,              \* line 34
    quizMode,           \* line 35
    currentQuestion,    \* line 36
    questions,          \* line 37
    selectedAnswer,     \* line 38
    showResult,         \* line 39
    score,              \* line 40
    answers,            \* line 41
    questionStartTime,  \* line 42
    now,                \* Date.now(), in milliseconds
    calls,              \* the completeLesson invocations still running, oldest first
    alerts,             \* Alert.alert dialogs on screen, oldest first
    nav,                \* "mounted", "back" (router.back()) or "crashed" (render threw)
    currentMode,        \* line 658
    quizType,           \* line 659
    currentQuiz,        \* line 660: <<>> for null, else <<quiz>>
    userAnswer,         \* line 662
    recording,          \* line 665
    isRecording,        \* line 666
    ops,                \* the advanced screen's async calls still running, oldest first
    mapIndex,           \* the word the startQuiz callback was last applied to (0: none)
    mapResult,          \* what it returned: <<>> or <<question>>
    messages,           \* ai-tutor.tsx line 29
    inputText,          \* ai-tutor.tsx line 39
    selectedTab,        \* community.tsx line 40
    timeframe,          \* community.tsx line 41
    leaderboard,        \* community.tsx line 42
    achievements,       \* community.tsx line 43
    userRank,           \* community.tsx line 44: <<>> for null, else <<rank>>
    currentUser,        \* community.tsx line 45
    refreshing,         \* community.tsx line 39
    requests,           \* the tab screens' async calls still running, oldest first
    prayerTimes,        \* prayer.tsx line 38
    nextPrayer,         \* prayer.tsx line 47: <<>> for null, else <<prayer>>
    prayerNow,          \* new Date() of prayer.tsx line 107, as <<hour, minute, second>>
    prayerData,         \* the six times of the prayer-times reply, each <<hour, minute>>
    locale              \* the device's locale, read by toLocaleTimeString (prayer.tsx line 200)

\* Cells of AdvancedLessonScreen alone.
advOnly == <<currentMode, quizType, currentQuiz, userAnswer, recording, isRecording, ops>>

\* The position of the question generator run on its own.
genOnly == <<mapIndex, mapResult>>

\* Cells of the tab screens (ai-tutor.tsx, community.tsx, prayer.tsx).
tabsOnly == <<messages, inputText, selectedTab, timeframe, leaderboard, achievements,
              userRank, currentUser, refreshing, requests, prayerTimes, nextPrayer,
              prayerNow, prayerData, locale>>

vars == <<loading, words, quizMode, currentQuestion, questions, selectedAnswer,
          showResult, score, answers, questionStartTime, now, calls, alerts, nav,
          advOnly, genOnly, tabsOnly>>

session == <<quizMode, currentQuestion, questions, selectedAnswer, showResult,
             score, answers, questionStartTime>>

\* ----------------------------------------------------------------- helpers

Range(s) == {s[i] : i \in 1..Len(s)}

Min(a, b) == IF a < b THEN a ELSE b

RECURSIVE SumTime(_)
SumTime(as) == IF as = <<>> THEN 0 ELSE as[1].time_spent + SumTime(Tail(as))

\* Number of positions of s holding x.
Count(s, x) == Cardinality({i \in 1..Len(s) : s[i] = x})

\* Array.prototype.filter.
RECURSIVE Filter(_, _)
Filter(s, keep) ==
    IF s = <<>> THEN <<>>
    ELSE IF s[1] \in keep THEN <<s[1]>> \o Filter(Tail(s), keep)
         ELSE Filter(Tail(s), keep)

\* s without its i-th element.
Remove(s, i) == SubSeq(s, 1, i - 1) \o SubSeq(s, i + 1, Len(s))

\* slice taking the element at index k as well.
Slice0Through(s, k) == SubSeq(s, 1, Min(k + 1, Len(s)))

\* Array.prototype.slice(0, k).
Slice0(s, k) == SubSeq(s, 1, Min(k, Len(s)))

\* .sort(() => Math.random() - 0.5): the comparator is inconsistent, so the
\* order of the result is any arrangement of the same elements.
RandomSort(s) ==
    {[i \in 1..Len(s) |-> s[p[i]]] : p \in Permutations(1..Len(s))}

\* The vocabulary lists GET /api/lessons/:id may return: ids are unique
\* (the position in the list), meanings need not be.
LessonReplies ==
    UNION {{[i \in 1..n |-> [id |-> i, meaning |-> m[i]]] : m \in [1..n -> Meanings]}
           : n \in 1..MaxWords}

\* ----------------------------------------------------- question generation

\* Lines 67-71: the meanings of the other words, shuffled, cut to three.
WrongOptions(ws, word) ==
    LET others   == Filter(ws, {w \in Range(ws) : w.id # word.id})
        meanings == [i \in 1..Len(others) |-> others[i].meaning]
    IN  {Slice0(r, WrongCount) : r \in RandomSort(meanings)}

\* QuestionsFor taking the first option shown as the correct answer.
QuestionsForFirstOption(ws, word) ==
    UNION {{[word |-> word, options |-> o, correctAnswer |-> o[1]]
             : o \in RandomSort(Append(wrong, word.meaning))}
           : wrong \in WrongOptions(ws, word)}

\* Lines 65-82: the questions one word may get.
QuestionsFor(ws, word) ==
    UNION {{[word |-> word, options |-> o, correctAnswer |-> word.meaning]
             : o \in RandomSort(Append(wrong, word.meaning))}
           : wrong \in WrongOptions(ws, word)}

\* Lines 65-82: words.map(...), one question per word, in list order.
RECURSIVE QuizQuestions(_, _)
QuizQuestions(ws, n) ==
    IF n = 0 THEN {<<>>}
    ELSE {Append(qs, q) : qs \in QuizQuestions(ws, n - 1), q \in QuestionsFor(ws, ws[n])}

\* ------------------------------------------------------------------ render

\* Line 174-175: question.correctAnswer of an undefined question throws.
RenderThrows(qm, qs, cq) == qm /\ cq >= Len(qs)

\* The component is on screen and no dialog covers it.
Interactive == nav = "mounted" /\ ~loading /\ alerts = <<>>

\* Line 173.
QuizView == Interactive /\ quizMode

\* LearningView with the Start Quiz button on screen during the quiz too.
LearningViewAlways == Interactive

\* Lines 293-333.
LearningView == Interactive /\ ~quizMode

\* Line 234: disabled={showResult}.
OptionEnabled == QuizView /\ ~showResult

\* SubmitEnabled with the button left on screen while the result is shown.
SubmitEnabledAlways == QuizView /\ selectedAnswer # null

\* Lines 272-276: rendered while no result is shown, disabled without a selection.
SubmitEnabled == QuizView /\ ~showResult /\ selectedAnswer # null

\* NextEnabled with the button on screen before an answer is submitted.
NextEnabledAlways == QuizView

\* Lines 272, 281: rendered while the result is shown.
NextEnabled == QuizView /\ showResult

\* ------------------------------------------------------------------ alerts

ErrorAlert(msg) == [title |-> "Error", message |-> msg, scored |-> 0, outOf |-> 0]

SelectAlert ==
    [title |-> "Please select an answer", message |-> "", scored |-> 0, outOf |-> 0]

CompleteAlert(s, n) ==
    [title |-> "Lesson Complete!", message |-> "You scored", scored |-> s, outOf |-> n]

\* ---------------------------------------------------------------- handlers

\* IsCorrect comparing with the first option instead of correctAnswer.
IsCorrectFirstOption(sel, q) == sel = q.options[1]

\* Lines 101, 141, 151, 175.
IsCorrect(sel, q) == sel = q.correctAnswer

\* Lines 102, 142.
TimeSpent(t, start) == (t - start) \div MsPerSecond

\* Lines 48-61, the reply with data.
LoadLessonOk(ws) ==
    /\ loading /\ nav = "mounted"
    /\ words' = ws
    /\ loading' = FALSE
    /\ UNCHANGED <<tabsOnly, advOnly, genOnly, session, now, calls, alerts, nav>>

\* Lines 48-61, the request failing.
LoadLessonFail ==
    /\ loading /\ nav = "mounted"
    /\ alerts' = Append(alerts, ErrorAlert("Failed to load lesson"))
    /\ loading' = FALSE
    /\ UNCHANGED <<tabsOnly, advOnly, genOnly, words, session, now, calls, nav>>

\* Lines 63-87, and the render that follows (lines 173-175).
startQuiz ==
    /\ \E qs \in QuizQuestions(words, Len(words)) :
          /\ questions' = qs
          /\ nav' = IF RenderThrows(TRUE, qs, currentQuestion) THEN "crashed" ELSE nav
    /\ quizMode' = TRUE
    /\ questionStartTime' = now
    /\ UNCHANGED <<tabsOnly, advOnly, genOnly, loading, words, currentQuestion, selectedAnswer, showResult,
                   score, answers, now, calls, alerts>>

\* Lines 89-92.
handleAnswerSelect(answer) ==
    /\ selectedAnswer' = IF showResult THEN selectedAnswer ELSE answer
    /\ UNCHANGED <<tabsOnly, advOnly, genOnly, loading, words, quizMode, currentQuestion, questions, showResult,
                   score, answers, questionStartTime, now, calls, alerts, nav>>

\* ScoreAfter counting every submitted answer.
ScoreAfterAny(s, correct) == s + 1

\* Lines 104-106.
ScoreAfter(s, correct) == IF correct THEN s + 1 ELSE s

\* handleSubmitAnswer without the return after the alert: the unselected
\* answer is graded and recorded.
handleSubmitAnswerNoReturn ==
    LET question  == questions[currentQuestion + 1]
        isCorrect == IsCorrect(selectedAnswer, question)
        timeSpent == TimeSpent(now, questionStartTime)
    IN  /\ alerts' = IF selectedAnswer = null THEN Append(alerts, SelectAlert) ELSE alerts
        /\ score' = ScoreAfter(score, isCorrect)
        /\ answers' = Append(answers, [word_id    |-> question.word.id,
                                       is_correct |-> isCorrect,
                                       time_spent |-> timeSpent])
        /\ showResult' = TRUE
        /\ UNCHANGED <<tabsOnly, advOnly, genOnly, loading, words, quizMode, currentQuestion,
                       questions, selectedAnswer, questionStartTime, now, calls, nav>>

\* Lines 94-119.
handleSubmitAnswer ==
    IF selectedAnswer = null
    THEN /\ alerts' = Append(alerts, SelectAlert)
         /\ UNCHANGED <<tabsOnly, advOnly, genOnly, loading, words, session, now, calls, nav>>
    ELSE LET question  == questions[currentQuestion + 1]
             isCorrect == IsCorrect(selectedAnswer, question)
             timeSpent == TimeSpent(now, questionStartTime)
         IN  /\ score' = ScoreAfter(score, isCorrect)
             /\ answers' = Append(answers, [word_id    |-> question.word.id,
                                            is_correct |-> isCorrect,
                                            time_spent |-> timeSpent])
             /\ showResult' = TRUE
             /\ UNCHANGED <<tabsOnly, advOnly, genOnly, loading, words, quizMode, currentQuestion, questions,
                            selectedAnswer, questionStartTime, now, calls, alerts, nav>>

\* Lines 132-134: completeLesson starts; what its closure holds of the render
\* it was called from, waiting for AsyncStorage.getItem.
CompleteCall ==
    [stage      |-> "token",
     answers    |-> answers,
     word_id    |-> questions[currentQuestion + 1].word.id,
     is_correct |-> IsCorrect(selectedAnswer, questions[currentQuestion + 1]),
     start      |-> questionStartTime,
     score      |-> score,
     total      |-> Len(questions),
     payload    |-> [lesson_id |-> <<"lesson_", id>>, answers |-> <<>>, total_time |-> 0]]

\* HasNext off by one: the last question has a next one.
HasNextOffByOne(cq, qs) == cq < Len(qs)

\* Line 122.
HasNext(cq, qs) == cq < Len(qs) - 1

\* Lines 121-130.
handleNextQuestion ==
    IF HasNext(currentQuestion, questions)
    THEN /\ currentQuestion' = currentQuestion + 1
         /\ selectedAnswer' = null
         /\ showResult' = FALSE
         /\ questionStartTime' = now
         /\ nav' = IF RenderThrows(quizMode, questions, currentQuestion + 1)
                   THEN "crashed" ELSE nav
         /\ UNCHANGED <<tabsOnly, advOnly, genOnly, loading, words, quizMode, questions, score, answers, now,
                        calls, alerts>>
    ELSE /\ Len(calls) < MaxCalls
         /\ calls' = Append(calls, CompleteCall)
         /\ UNCHANGED <<tabsOnly, advOnly, genOnly, loading, words, session, now, alerts, nav>>

\* Lines 138-145: the body of the completion request.
Payload(c, t) ==
    [lesson_id  |-> <<"lesson_", id>>,
     answers    |-> Append(c.answers, [word_id    |-> c.word_id,
                                       is_correct |-> c.is_correct,
                                       time_spent |-> TimeSpent(t, c.start)]),
     total_time |-> TotalTime]

\* Lines 135-147: the token is there, the request goes out.
CompletePost(i) ==
    /\ calls[i].stage = "token"
    /\ calls' = [calls EXCEPT ![i].stage = "sent", ![i].payload = Payload(calls[i], now)]
    /\ UNCHANGED <<tabsOnly, advOnly, genOnly, loading, words, session, now, alerts, nav>>

\* Line 151: the score of the completion message.
FinalScore(c) == c.score + (IF c.is_correct THEN 1 ELSE 0)

\* Lines 149-158: the request succeeded.
CompleteOk(i) ==
    /\ calls[i].stage = "sent"
    /\ calls' = Remove(calls, i)
    /\ alerts' = Append(alerts, CompleteAlert(FinalScore(calls[i]), calls[i].total))
    /\ UNCHANGED <<tabsOnly, advOnly, genOnly, loading, words, session, now, nav>>

\* CompleteFail hiding the result of the last question.
CompleteFailHidesResult(i) ==
    /\ calls[i].stage \in {"token", "sent"}
    /\ calls' = Remove(calls, i)
    /\ alerts' = Append(alerts, ErrorAlert("Failed to save progress"))
    /\ showResult' = FALSE
    /\ UNCHANGED <<tabsOnly, advOnly, genOnly, loading, words, quizMode, currentQuestion,
                   questions, selectedAnswer, score, answers, questionStartTime,
                   now, nav>>

\* Lines 159-162: AsyncStorage.getItem or the request rejected.
CompleteFail(i) ==
    /\ calls[i].stage \in {"token", "sent"}
    /\ calls' = Remove(calls, i)
    /\ alerts' = Append(alerts, ErrorAlert("Failed to save progress"))
    /\ UNCHANGED <<tabsOnly, advOnly, genOnly, loading, words, session, now, nav>>

\* Lines 153-156: the dialog's button; 'Continue' of the completion dialog
\* navigates back.
DismissAlert ==
    /\ alerts # <<>>
    /\ alerts' = Tail(alerts)
    /\ nav' = IF Head(alerts).title = "Lesson Complete!" /\ nav = "mounted"
              THEN "back" ELSE nav
    /\ UNCHANGED <<tabsOnly, advOnly, genOnly, loading, words, session, now, calls>>

\* Lines 181, 297: the header's back button.
PressBack ==
    /\ Interactive
    /\ nav' = "back"
    /\ UNCHANGED <<tabsOnly, advOnly, genOnly, loading, words, session, now, calls, alerts>>

\* Date.now() moves on.
Tick ==
    /\ now < MaxTicks * TickMs
    /\ now' = now + TickMs
    /\ UNCHANGED <<tabsOnly, advOnly, genOnly, loading, words, session, calls, alerts, nav>>

\* ------------------------------------------------------- the tab screens idle

\* ai-tutor.tsx lines 30-36: the message the chat opens with.  A text is a
\* sequence of characters; a fixed sentence of the source is one element.
greeting ==
    [text |-> <<"As-salamu alaykum! I'm your Islamic AI tutor. I can help you understand Quranic concepts, Arabic grammar, and Islamic teachings. How can I assist your learning today?">>,
     isUser |-> FALSE]

\* The tab screens as constructed and before their mount effects
\* (ai-tutor.tsx lines 29-40, community.tsx lines 38-45, prayer.tsx lines
\* 36-48); the clock and the server's timetable are not read yet.
TabsIdle ==
    /\ messages = <<greeting>>
    /\ inputText = <<>>
    /\ selectedTab = "leaderboard"
    /\ timeframe = "weekly"
    /\ leaderboard = <<>>
    /\ achievements = <<>>
    /\ userRank = <<>>
    /\ currentUser = ""
    /\ refreshing = FALSE
    /\ requests = <<>>
    /\ prayerTimes = <<>>
    /\ nextPrayer = <<>>
    /\ prayerNow = <<0, 0, 0>>
    /\ prayerData = <<>>
    /\ locale = "en-US"

\* ------------------------------------------------ the screen as it is driven

\* Line 327.
PressStartQuiz == LearningView /\ startQuiz

\* Line 233.
PressOption ==
    /\ OptionEnabled
    /\ \E o \in Range(questions[currentQuestion + 1].options) : handleAnswerSelect(o)

\* Line 275.
PressSubmit == SubmitEnabled /\ handleSubmitAnswer

\* Line 281.
PressNext == NextEnabled /\ handleNextQuestion

Environment ==
    \/ \E ws \in LessonReplies : LoadLessonOk(ws)
    \/ LoadLessonFail
    \/ \E i \in 1..Len(calls) : CompletePost(i)
    \/ \E i \in 1..Len(calls) : CompleteOk(i)
    \/ \E i \in 1..Len(calls) : CompleteFail(i)
    \/ DismissAlert
    \/ PressBack
    \/ Tick

Init ==
    /\ loading = TRUE
    /\ words = <<>>
    /\ quizMode = FALSE
    /\ currentQuestion = 0
    /\ questions = <<>>
    /\ selectedAnswer = null
    /\ showResult = FALSE
    /\ score = 0
    /\ answers = <<>>
    /\ questionStartTime = 0
    /\ now = 0
    /\ calls = <<>>
    /\ alerts = <<>>
    /\ nav = "mounted"
    /\ currentMode = "study"
    /\ quizType = "multiple_choice"
    /\ currentQuiz = <<>>
    /\ userAnswer = <<>>
    /\ recording = null
    /\ isRecording = FALSE
    /\ ops = <<>>
    /\ mapIndex = 0
    /\ mapResult = <<>>
    /\ TabsIdle

Next ==
    \/ PressStartQuiz
    \/ PressOption
    \/ PressSubmit
    \/ PressNext
    \/ Environment

Spec == Init /\ [][Next]_vars

\* ------------------------------------- the handlers invoked in any order

\* handleAnswerSelect called whatever the render disables.
CallSelect ==
    /\ QuizView
    /\ \E o \in Range(questions[currentQuestion + 1].options) : handleAnswerSelect(o)

\* handleSubmitAnswer called whatever the render shows.
CallSubmit == QuizView /\ Len(answers) < MaxAnswers /\ handleSubmitAnswer

\* handleNextQuestion called whatever the render shows.
CallNext == QuizView /\ handleNextQuestion

HandlerNext ==
    \/ PressStartQuiz
    \/ CallSelect
    \/ CallSubmit
    \/ CallNext
    \/ Environment

HandlerSpec == Init /\ [][HandlerNext]_vars

\* ------------------------------------------------ the learner who persists

\* The screen driven by a learner who does not leave with the back button,
\* with completion requests that do not fail: the runs C17 speaks of.
LiveNext ==
    \/ PressStartQuiz
    \/ PressOption
    \/ PressSubmit
    \/ PressNext
    \/ \E ws \in LessonReplies : LoadLessonOk(ws)
    \/ LoadLessonFail
    \/ \E i \in 1..Len(calls) : CompletePost(i)
    \/ \E i \in 1..Len(calls) : CompleteOk(i)
    \/ DismissAlert
    \/ Tick

\* The learner presses what the screen offers (lines 233, 275, 281), and a
\* request that is out is sent and answered (lines 134-149).
LiveFairness ==
    /\ WF_vars(PressOption)
    /\ WF_vars(PressSubmit)
    /\ WF_vars(PressNext)
    /\ WF_vars(\E i \in 1..Len(calls) : CompletePost(i))
    /\ WF_vars(\E i \in 1..Len(calls) : CompleteOk(i))

LiveSpec == Init /\ [][LiveNext]_vars /\ LiveFairness

\* ------------------------------------------- the question generator alone

\* Meanings for the generator's lists, in the order in which a list first
\* uses them.
GenMeanings == <<"God", "Lord", "Merciful", "King", "Guide", "Light", "Path">>

\* Largest meaning number used in s (0 for the empty list).
Top(s) ==
    IF s = <<>> THEN 0 ELSE CHOOSE m \in Range(s) : \A x \in Range(s) : x <= m

\* The lists of n meaning numbers in which each number first appears after
\* all smaller ones: one list for every pattern of equal and distinct
\* meanings among n words, whatever the strings are.
RECURSIVE MeaningPatterns(_)
MeaningPatterns(n) ==
    IF n = 0 THEN {<<>>}
    ELSE UNION {{Append(s, k) : k \in 1..(Top(s) + 1)} : s \in MeaningPatterns(n - 1)}

\* The vocabulary lists startQuiz is applied to: 1..MaxGenWords words, ids
\* the positions, meanings distinct or repeated in every pattern.
GenLessons ==
    UNION {{[i \in 1..n |-> [id |-> i, meaning |-> GenMeanings[p[i]]]]
             : p \in MeaningPatterns(n)}
           : n \in 1..MaxGenWords}

\* No two words of ws share a meaning.
DistinctMeanings(ws) ==
    \A i, j \in 1..Len(ws) : i # j => ws[i].meaning # ws[j].meaning

GenInit ==
    /\ words \in GenLessons
    /\ loading = FALSE
    /\ quizMode = FALSE
    /\ currentQuestion = 0
    /\ questions = <<>>
    /\ selectedAnswer = null
    /\ showResult = FALSE
    /\ score = 0
    /\ answers = <<>>
    /\ questionStartTime = 0
    /\ now = 0
    /\ calls = <<>>
    /\ alerts = <<>>
    /\ nav = "mounted"
    /\ currentMode = "study"
    /\ quizType = "multiple_choice"
    /\ currentQuiz = <<>>
    /\ userAnswer = <<>>
    /\ recording = null
    /\ isRecording = FALSE
    /\ ops = <<>>
    /\ mapIndex = 0
    /\ mapResult = <<>>
    /\ TabsIdle

\* Lines 65-82: one call of the words.map callback, for the word at mapIndex;
\* mapResult holds the question that call returned.
MapWord ==
    /\ mapIndex < Len(words)
    /\ \E q \in QuestionsFor(words, words[mapIndex + 1]) :
          mapResult' = <<q>>
    /\ mapIndex' = mapIndex + 1
    /\ UNCHANGED <<tabsOnly, advOnly, loading, words, quizMode, currentQuestion, questions,
                   selectedAnswer, showResult, score, answers, questionStartTime,
                   now, calls, alerts, nav>>

GenNext == MapWord

GenSpec == GenInit /\ [][GenNext]_vars

\* ------------------------------------------------ AdvancedLessonScreen: data

\* The LessonScreen cells, which the advanced screen does not have.
lessonOnly ==
    <<quizMode, questions, selectedAnswer, answers, questionStartTime, now, calls>>

\* Line 657: the four quiz types.
QuizTypes == {"multiple_choice", "fill_blank", "voice_recognition", "writing"}

\* An optional field of QuizQuestion (lines 635-645) that is absent. Texts are
\* sequences of characters; no typed text equals this one.
undefined == <<"<undefined>">>

\* String.prototype.toLowerCase over the letters the texts use.
ToLowerCase(t) ==
    [i \in 1..Len(t) |-> IF t[i] = "A" THEN "a" ELSE IF t[i] = "B" THEN "b" ELSE t[i]]

RECURSIVE TrimStart(_)
TrimStart(t) == IF t # <<>> /\ Head(t) = " " THEN TrimStart(Tail(t)) ELSE t

RECURSIVE TrimEnd(_)
TrimEnd(t) ==
    IF t # <<>> /\ t[Len(t)] = " " THEN TrimEnd(SubSeq(t, 1, Len(t) - 1)) ELSE t

\* trim leaving the blanks at the end.
TrimStartOnly(t) == TrimStart(t)

\* String.prototype.trim.
Trim(t) == TrimEnd(TrimStart(t))

\* Line 857: question.answer?.toLowerCase().trim().
OptionalNormalized(t) == IF t = undefined THEN undefined ELSE Trim(ToLowerCase(t))

\* What the learner may type into the TextInput (line 1035), the empty text
\* included.
TypedTexts == {<<>>, <<"A", " ">>, <<"b">>}

\* The questions a quiz may hold: one with options, a correct_answer and an
\* answer, and one with none of them (lines 635-645: every one of these
\* fields is optional, and the server is not part of the source).
AdvQuestions ==
    {[options |-> <<<<"a">>, <<"b">>>>, correct_answer |-> <<"a">>,
      answer |-> <<" ", "A">>],
     [options |-> undefined, correct_answer |-> undefined, answer |-> undefined]}

\* The vocabulary lists of the advanced screen, which only lists them (lines
\* 1126-1146): one list, of one word.
AdvLessonReplies == {ws \in LessonReplies : Len(ws) = 1 /\ ws[1].meaning = "God"}

\* The quizzes POST /api/quiz/advanced may return: 1..MaxQuizLen questions.
QuizReplies ==
    UNION {{[questions |-> qs] : qs \in [1..n -> AdvQuestions]} : n \in 1..MaxQuizLen}

\* Lines 853-858 and 951-955: the grading of userAnswer for a quiz type.
AdvIsCorrect(type, answer, q) ==
    CASE type = "multiple_choice" -> answer = q.correct_answer
      [] type \in {"fill_blank", "writing"} ->
            Trim(ToLowerCase(answer)) = OptionalNormalized(q.answer)
      [] OTHER -> FALSE

\* Line 884: ((score / (n || 1)) * 100).toFixed(0), rounding to the nearest
\* whole number, halves upwards.
Percent(s, n) ==
    LET d == IF n = 0 THEN 1 ELSE n
    IN  (200 * s + d) \div (2 * d)

\* The advanced screen's dialogs with one button.
AdvAlert(title, msg) == [title |-> title, message |-> msg, scored |-> 0, outOf |-> 0]

\* Lines 885-901: the dialog of completeQuiz, with the percentage it shows.
QuizCompleteAlert(s, n) ==
    [title |-> "Quiz Complete!", message |-> "", scored |-> s, outOf |-> n,
     percent |-> Percent(s, n)]

\* A request in flight, with the score and the question index its handler's
\* closure holds where the handler goes on to use them (0 otherwise), and
\* whether the quiz it was made in is still the current one.
Op(kind, s) == [kind |-> kind, score |-> s, index |-> 0, sameQuiz |-> TRUE]

\* The requests in flight once the quiz they were made in is replaced or
\* dropped.
Outdated(os) == [k \in 1..Len(os) |-> [os[k] EXCEPT !.sameQuiz = FALSE]]

\* --------------------------------------------- AdvancedLessonScreen: render

\* Lines 1094-1101: the spinner replaces the screen while loading; a dialog
\* in front takes the presses.
AdvInteractive == nav = "mounted" /\ ~loading /\ alerts = <<>>

\* Lines 1120-1157.
StudyView == AdvInteractive /\ currentMode = "study"

\* Lines 947-948, 1158-1160: nothing is rendered without a quiz.
AdvQuizView == AdvInteractive /\ currentMode = "quiz" /\ currentQuiz # <<>>

\* Line 950.
AdvQuestion == currentQuiz[1].questions[currentQuestion + 1]

\* ------------------------------------------- AdvancedLessonScreen: handlers
\* A reply finds the screen mounted: React drops the state updates of a
\* component that is gone.

\* Lines 681-694: the lesson arrived.
AdvLoadLessonOk(i, ws) ==
    /\ nav = "mounted" /\ ops[i].kind = "load"
    /\ words' = ws
    /\ loading' = FALSE
    /\ ops' = Remove(ops, i)
    /\ UNCHANGED <<tabsOnly, lessonOnly, genOnly, currentQuestion, showResult, score, alerts,
                   nav, currentMode, quizType, currentQuiz, userAnswer, recording,
                   isRecording>>

\* Lines 689-693: it did not.
AdvLoadLessonFail(i) ==
    /\ Len(alerts) < MaxAlerts
    /\ nav = "mounted" /\ ops[i].kind = "load"
    /\ alerts' = Append(alerts, ErrorAlert("Failed to load lesson"))
    /\ loading' = FALSE
    /\ ops' = Remove(ops, i)
    /\ UNCHANGED <<tabsOnly, lessonOnly, genOnly, words, currentQuestion, showResult, score,
                   nav, currentMode, quizType, currentQuiz, userAnswer, recording,
                   isRecording>>

\* Line 928.
SelectQuizType(t) ==
    /\ StudyView
    /\ quizType' = t
    /\ UNCHANGED <<tabsOnly, lessonOnly, genOnly, loading, words, currentQuestion, showResult,
                   score, alerts, nav, currentMode, currentQuiz, userAnswer,
                   recording, isRecording, ops>>

\* Lines 696-709: startAdvancedQuiz up to its request.
startAdvancedQuiz ==
    /\ Len(ops) < MaxOps
    /\ loading' = TRUE
    /\ ops' = Append(ops, Op("quiz", 0))
    /\ UNCHANGED <<tabsOnly, lessonOnly, genOnly, words, currentQuestion, showResult, score,
                   alerts, nav, currentMode, quizType, currentQuiz, userAnswer,
                   recording, isRecording>>

\* StartQuizOk without the score reset.
StartQuizOkKeepsScore(i, quiz) ==
    /\ nav = "mounted" /\ ops[i].kind = "quiz"
    /\ currentQuiz' = <<[questions |-> quiz.questions, quiz_type |-> quizType]>>
    /\ currentMode' = "quiz"
    /\ currentQuestion' = 0
    /\ userAnswer' = <<>>
    /\ showResult' = FALSE
    /\ loading' = FALSE
    /\ ops' = Outdated(Remove(ops, i))
    /\ UNCHANGED <<tabsOnly, lessonOnly, genOnly, words, score, alerts, nav, quizType,
                   recording, isRecording>>

\* Lines 711-716, 720-722: the quiz arrived, made for the quiz_type of the
\* request (line 703; quizType cannot change behind the spinner).
StartQuizOk(i, quiz) ==
    /\ nav = "mounted" /\ ops[i].kind = "quiz"
    /\ currentQuiz' = <<[questions |-> quiz.questions, quiz_type |-> quizType]>>
    /\ currentMode' = "quiz"
    /\ currentQuestion' = 0
    /\ score' = 0
    /\ userAnswer' = <<>>
    /\ showResult' = FALSE
    /\ loading' = FALSE
    /\ ops' = Outdated(Remove(ops, i))
    /\ UNCHANGED <<tabsOnly, lessonOnly, genOnly, words, alerts, nav, quizType, recording,
                   isRecording>>

\* Lines 717-722: it did not.
StartQuizFail(i) ==
    /\ Len(alerts) < MaxAlerts
    /\ nav = "mounted" /\ ops[i].kind = "quiz"
    /\ alerts' = Append(alerts, ErrorAlert("Failed to create quiz"))
    /\ loading' = FALSE
    /\ ops' = Remove(ops, i)
    /\ UNCHANGED <<tabsOnly, lessonOnly, genOnly, words, currentQuestion, showResult, score,
                   nav, currentMode, quizType, currentQuiz, userAnswer, recording,
                   isRecording>>

\* Line 1111.
ToggleMode ==
    /\ AdvInteractive
    /\ currentMode' = IF currentMode = "study" THEN "quiz" ELSE "study"
    /\ UNCHANGED <<tabsOnly, lessonOnly, genOnly, loading, words, currentQuestion, showResult,
                   score, alerts, nav, quizType, currentQuiz, userAnswer, recording,
                   isRecording, ops>>

\* Lines 1011, 1035: setUserAnswer.
setUserAnswer(t) ==
    /\ userAnswer' = t
    /\ UNCHANGED <<tabsOnly, lessonOnly, genOnly, loading, words, currentQuestion, showResult,
                   score, alerts, nav, currentMode, quizType, currentQuiz, recording,
                   isRecording, ops>>

\* Lines 837, 864: setScore(score + 1), where score is the value held by the
\* closure of the handler, not the value current when the update is applied.
ScoreAfterCorrect(closure, current) == closure + 1

\* Lines 846-869.
submitAnswer ==
    IF currentQuiz = <<>> \/ quizType = "voice_recognition"
    THEN UNCHANGED vars
    ELSE LET isCorrect == AdvIsCorrect(quizType, userAnswer, AdvQuestion)
         IN  /\ isCorrect => score < MaxScore
             /\ score' = IF isCorrect THEN ScoreAfterCorrect(score, score) ELSE score
             /\ showResult' = TRUE
             /\ UNCHANGED <<tabsOnly, lessonOnly, genOnly, loading, words, currentQuestion,
                            alerts, nav, currentMode, quizType, currentQuiz,
                            userAnswer, recording, isRecording, ops>>

\* Lines 883-902: completeQuiz up to the dialog.
completeQuiz ==
    /\ alerts' = Append(alerts, QuizCompleteAlert(score, Len(currentQuiz[1].questions)))
    /\ UNCHANGED <<tabsOnly, lessonOnly, genOnly, loading, words, currentQuestion, showResult,
                   score, nav, currentMode, quizType, currentQuiz, userAnswer,
                   recording, isRecording, ops>>

\* Lines 871-881.
nextQuestion ==
    IF currentQuiz = <<>>
    THEN UNCHANGED vars
    ELSE IF currentQuestion < Len(currentQuiz[1].questions) - 1
         THEN /\ currentQuestion' = currentQuestion + 1
              /\ userAnswer' = <<>>
              /\ showResult' = FALSE
              /\ UNCHANGED <<tabsOnly, lessonOnly, genOnly, loading, words, score, alerts, nav,
                             currentMode, quizType, currentQuiz, recording,
                             isRecording, ops>>
         ELSE completeQuiz

\* Lines 757-771: startRecording up to its first await.
startRecording ==
    /\ Len(ops) < MaxOps
    /\ ops' = Append(ops, Op("startRec", 0))
    /\ UNCHANGED <<tabsOnly, lessonOnly, genOnly, loading, words, currentQuestion, showResult,
                   score, alerts, nav, currentMode, quizType, currentQuiz, userAnswer,
                   recording, isRecording>>

\* Lines 769-773: the recording was created.
StartRecordingOk(i) ==
    /\ nav = "mounted" /\ ops[i].kind = "startRec"
    /\ recording' = "recording"
    /\ isRecording' = TRUE
    /\ ops' = Remove(ops, i)
    /\ UNCHANGED <<tabsOnly, lessonOnly, genOnly, loading, words, currentQuestion, showResult,
                   score, alerts, nav, currentMode, quizType, currentQuiz, userAnswer>>

\* Lines 759-763: the microphone permission was not granted.
StartRecordingDenied(i) ==
    /\ Len(alerts) < MaxAlerts
    /\ nav = "mounted" /\ ops[i].kind = "startRec"
    /\ alerts' = Append(alerts, AdvAlert("Permission Required",
                                         "Microphone permission is needed for voice recognition"))
    /\ ops' = Remove(ops, i)
    /\ UNCHANGED <<tabsOnly, lessonOnly, genOnly, loading, words, currentQuestion, showResult,
                   score, nav, currentMode, quizType, currentQuiz, userAnswer,
                   recording, isRecording>>

\* Lines 774-778.
StartRecordingFail(i) ==
    /\ Len(alerts) < MaxAlerts
    /\ nav = "mounted" /\ ops[i].kind = "startRec"
    /\ alerts' = Append(alerts, ErrorAlert("Unable to start recording"))
    /\ ops' = Remove(ops, i)
    /\ UNCHANGED <<tabsOnly, lessonOnly, genOnly, loading, words, currentQuestion, showResult,
                   score, nav, currentMode, quizType, currentQuiz, userAnswer,
                   recording, isRecording>>

\* Lines 781-786: stopRecording up to its first await; without a recording
\* it returns at once.
stopRecording ==
    IF recording = null
    THEN UNCHANGED vars
    ELSE /\ Len(ops) < MaxOps
         /\ isRecording' = FALSE
         /\ ops' = Append(ops, [Op("stop", score) EXCEPT !.index = currentQuestion])
         /\ UNCHANGED <<tabsOnly, lessonOnly, genOnly, loading, words, currentQuestion,
                        showResult, score, alerts, nav, currentMode, quizType,
                        currentQuiz, userAnswer, recording>>

\* Lines 826-839, 793: the analysis arrived with an overall score; the dialog,
\* the score from the closure, the result shown, the recording dropped.
AnalysisOk(i, overall) ==
    /\ Len(alerts) < MaxAlerts
    /\ nav = "mounted" /\ ops[i].kind = "stop"
    /\ overall >= PassScore => ops[i].score < MaxScore
    /\ alerts' = Append(alerts, AdvAlert("Pronunciation Analysis", ""))
    /\ score' = IF overall >= PassScore
                THEN ScoreAfterCorrect(ops[i].score, score) ELSE score
    /\ showResult' = TRUE
    /\ recording' = null
    /\ ops' = Remove(ops, i)
    /\ UNCHANGED <<tabsOnly, lessonOnly, genOnly, loading, words, currentQuestion, nav,
                   currentMode, quizType, currentQuiz, userAnswer, isRecording>>

\* Lines 840-843, 793: the analysis request failed.
AnalysisFail(i) ==
    /\ Len(alerts) < MaxAlerts
    /\ nav = "mounted" /\ ops[i].kind = "stop"
    /\ alerts' = Append(alerts, ErrorAlert("Unable to analyze pronunciation"))
    /\ recording' = null
    /\ ops' = Remove(ops, i)
    /\ UNCHANGED <<tabsOnly, lessonOnly, genOnly, loading, words, currentQuestion, showResult,
                   score, nav, currentMode, quizType, currentQuiz, userAnswer,
                   isRecording>>

\* Lines 794-797: stopAndUnloadAsync rejected.
StopFail(i) ==
    /\ Len(alerts) < MaxAlerts
    /\ nav = "mounted" /\ ops[i].kind = "stop"
    /\ alerts' = Append(alerts, ErrorAlert("Unable to process recording"))
    /\ ops' = Remove(ops, i)
    /\ UNCHANGED <<tabsOnly, lessonOnly, genOnly, loading, words, currentQuestion, showResult,
                   score, nav, currentMode, quizType, currentQuiz, userAnswer,
                   recording, isRecording>>

\* Lines 787-793: the recording has no URI, nothing is analysed.
StopNoUri(i) ==
    /\ nav = "mounted" /\ ops[i].kind = "stop"
    /\ recording' = null
    /\ ops' = Remove(ops, i)
    /\ UNCHANGED <<tabsOnly, lessonOnly, genOnly, loading, words, currentQuestion, showResult,
                   score, alerts, nav, currentMode, quizType, currentQuiz, userAnswer,
                   isRecording>>

\* The button of a dialog other than 'Quiz Complete!'.
AdvDismissAlert ==
    /\ alerts # <<>>
    /\ Head(alerts).title # "Quiz Complete!"
    /\ alerts' = Tail(alerts)
    /\ UNCHANGED <<tabsOnly, lessonOnly, genOnly, loading, words, currentQuestion, showResult,
                   score, nav, currentMode, quizType, currentQuiz, userAnswer,
                   recording, isRecording, ops>>

\* Lines 889-895: 'Review Lesson'.
ReviewLesson ==
    /\ alerts # <<>>
    /\ Head(alerts).title = "Quiz Complete!"
    /\ alerts' = Tail(alerts)
    /\ currentMode' = "study"
    /\ currentQuiz' = <<>>
    /\ ops' = Outdated(ops)
    /\ UNCHANGED <<tabsOnly, lessonOnly, genOnly, loading, words, currentQuestion, showResult,
                   score, nav, quizType, userAnswer, recording, isRecording>>

\* Lines 896-899: 'Continue'.
ContinueBack ==
    /\ alerts # <<>>
    /\ Head(alerts).title = "Quiz Complete!"
    /\ alerts' = Tail(alerts)
    /\ nav' = "back"
    /\ UNCHANGED <<tabsOnly, lessonOnly, genOnly, loading, words, currentQuestion, showResult,
                   score, currentMode, quizType, currentQuiz, userAnswer, recording,
                   isRecording, ops>>

\* Line 1107: the header's back button.
AdvPressBack ==
    /\ AdvInteractive
    /\ nav' = "back"
    /\ UNCHANGED <<tabsOnly, lessonOnly, genOnly, loading, words, currentQuestion, showResult,
                   score, alerts, currentMode, quizType, currentQuiz, userAnswer,
                   recording, isRecording, ops>>

\* --------------------------------- AdvancedLessonScreen as it is driven

\* Line 1152.
PressStartAdvancedQuiz == StudyView /\ startAdvancedQuiz

\* Lines 1000-1012: an option of a multiple-choice question.
PressAdvOption ==
    /\ AdvQuizView /\ quizType = "multiple_choice" /\ ~showResult
    /\ AdvQuestion.options # undefined
    /\ \E o \in Range(AdvQuestion.options) : setUserAnswer(o)

\* Lines 1030-1039: the text input of a fill-blank or writing question.
TypeAnswer ==
    /\ AdvQuizView /\ quizType \in {"fill_blank", "writing"} /\ ~showResult
    /\ \E t \in TypedTexts \ {userAnswer} : setUserAnswer(t)

\* Lines 1066-1078.
PressAdvSubmit ==
    /\ AdvQuizView /\ ~showResult /\ quizType # "voice_recognition"
    /\ userAnswer # <<>>
    /\ submitAnswer

\* Lines 1079-1088.
PressAdvNext == AdvQuizView /\ showResult /\ nextQuestion

\* Lines 979-989: the record button while it reads 'Start Recording'.
PressStartRecording ==
    /\ AdvQuizView /\ quizType = "voice_recognition" /\ ~showResult
    /\ ~isRecording
    /\ startRecording

\* Lines 979-989: the record button while it reads 'Stop Recording'.
PressStopRecording ==
    /\ AdvQuizView /\ quizType = "voice_recognition" /\ ~showResult
    /\ isRecording /\ recording # null
    /\ stopRecording

AdvInit ==
    /\ loading = TRUE
    /\ words = <<>>
    /\ quizMode = FALSE
    /\ currentQuestion = 0
    /\ questions = <<>>
    /\ selectedAnswer = null
    /\ showResult = FALSE
    /\ score = 0
    /\ answers = <<>>
    /\ questionStartTime = 0
    /\ now = 0
    /\ calls = <<>>
    /\ alerts = <<>>
    /\ nav = "mounted"
    /\ currentMode = "study"
    /\ quizType = "multiple_choice"
    /\ currentQuiz = <<>>
    /\ userAnswer = <<>>
    /\ recording = null
    /\ isRecording = FALSE
    /\ ops = <<Op("load", 0)>>
    /\ mapIndex = 0
    /\ mapResult = <<>>
    /\ TabsIdle

AdvNext ==
    \/ \E i \in 1..Len(ops), ws \in AdvLessonReplies : AdvLoadLessonOk(i, ws)
    \/ \E i \in 1..Len(ops) : AdvLoadLessonFail(i)
    \/ \E t \in QuizTypes : SelectQuizType(t)
    \/ PressStartAdvancedQuiz
    \/ \E i \in 1..Len(ops), quiz \in QuizReplies : StartQuizOk(i, quiz)
    \/ \E i \in 1..Len(ops) : StartQuizFail(i)
    \/ ToggleMode
    \/ PressAdvOption
    \/ TypeAnswer
    \/ PressAdvSubmit
    \/ PressAdvNext
    \/ PressStartRecording
    \/ \E i \in 1..Len(ops) : StartRecordingOk(i)
    \/ \E i \in 1..Len(ops) : StartRecordingDenied(i)
    \/ \E i \in 1..Len(ops) : StartRecordingFail(i)
    \/ PressStopRecording
    \/ \E i \in 1..Len(ops), overall \in {PassScore - 1, PassScore} : AnalysisOk(i, overall)
    \/ \E i \in 1..Len(ops) : AnalysisFail(i)
    \/ \E i \in 1..Len(ops) : StopFail(i)
    \/ \E i \in 1..Len(ops) : StopNoUri(i)
    \/ AdvDismissAlert
    \/ ReviewLesson
    \/ ContinueBack
    \/ AdvPressBack

AdvSpec == AdvInit /\ [][AdvNext]_vars

\* ------------------------- AdvancedLessonScreen: the handlers called directly

\* submitAnswer called whatever the render offers (lines 846-869).
CallSubmitAnswer == nav = "mounted" /\ submitAnswer

\* The advanced screen without the recorder, with submitAnswer callable in
\* every state.
AdvHandlerNext ==
    \/ \E i \in 1..Len(ops), ws \in AdvLessonReplies : AdvLoadLessonOk(i, ws)
    \/ \E i \in 1..Len(ops) : AdvLoadLessonFail(i)
    \/ \E t \in QuizTypes : SelectQuizType(t)
    \/ PressStartAdvancedQuiz
    \/ \E i \in 1..Len(ops), quiz \in QuizReplies : StartQuizOk(i, quiz)
    \/ \E i \in 1..Len(ops) : StartQuizFail(i)
    \/ ToggleMode
    \/ PressAdvOption
    \/ TypeAnswer
    \/ CallSubmitAnswer
    \/ PressAdvNext
    \/ AdvDismissAlert
    \/ ReviewLesson
    \/ ContinueBack
    \/ AdvPressBack

AdvHandlerSpec == AdvInit /\ [][AdvHandlerNext]_vars

\* ------------------------------------------------------------ AITutorScreen

\* The other cells of this module, which the tutor screen leaves alone.
tutorRest == <<words, quizMode, currentQuestion, questions, selectedAnswer, showResult,
               score, answers, questionStartTime, now, calls, alerts, nav, advOnly,
               genOnly, selectedTab, timeframe, leaderboard, achievements, userRank,
               currentUser, refreshing, prayerTimes, nextPrayer, prayerNow, prayerData,
               locale>>

\* ai-tutor.tsx lines 42-48.
quickQuestions ==
    {<<"What does the word \"Rahman\" mean?">>,
     <<"Explain the concept of Tawheed">>,
     <<"How do I improve my Arabic pronunciation?">>,
     <<"What is the significance of Al-Fatiha?">>,
     <<"Tell me about Islamic prayer times">>}

\* What the learner types into the TextInput (line 208): nothing, a blank,
\* a question with a blank in front.
TutorTexts == {<<>>, <<" ">>, <<" ", "q">>}

\* response.data.answer of POST /api/ai-tutor/ask (line 88).
TutorAnswers == {<<"answer">>}

\* Lines 97-102: the message of the catch block.
apology ==
    [text |-> <<"I apologize, but I'm unable to respond at the moment. Please try again later or consult with Islamic scholars for guidance.">>,
     isUser |-> FALSE]

\* The questions asked so far.
UserMessages == {k \in 1..Len(messages) : messages[k].isUser}

\* Lines 57-72: sendMessage up to its first await.  The request leaves with
\* the trimmed text (line 76).
sendMessage(text) ==
    IF Trim(text) = <<>> \/ loading
    THEN UNCHANGED vars
    ELSE /\ messages' = Append(messages, [text |-> Trim(text), isUser |-> TRUE])
         /\ inputText' = <<>>
         /\ loading' = TRUE
         /\ requests' = Append(requests, [kind |-> "ask", question |-> Trim(text)])
         /\ UNCHANGED tutorRest

\* Line 208: onChangeText={setInputText}; line 213: editable={!loading}.
TutorType(t) ==
    /\ ~loading
    /\ t # inputText
    /\ inputText' = t
    /\ UNCHANGED <<messages, loading, requests, tutorRest>>

\* Lines 215-222: the send button, disabled for blank text and while loading.
PressSend ==
    /\ ~(Trim(inputText) = <<>> \/ loading)
    /\ Cardinality(UserMessages) < MaxExchanges
    /\ sendMessage(inputText)

\* Lines 142-151: a quick question, disabled while loading.
PressQuickQuestion(q) ==
    /\ ~loading
    /\ Cardinality(UserMessages) < MaxExchanges
    /\ sendMessage(q)

\* Lines 74-107 on a reply that carries an answer.
AskOk(i, answer) ==
    /\ requests[i].kind = "ask"
    /\ messages' = Append(messages, [text |-> answer, isUser |-> FALSE])
    /\ loading' = FALSE
    /\ requests' = Remove(requests, i)
    /\ UNCHANGED <<inputText, tutorRest>>

\* AskFail without the finally block.
AskFailKeepsLoading(i) ==
    /\ requests[i].kind = "ask"
    /\ messages' = Append(messages, apology)
    /\ requests' = Remove(requests, i)
    /\ UNCHANGED <<loading, inputText, tutorRest>>

\* Lines 74-107 when the token read or the request throws.
AskFail(i) ==
    /\ requests[i].kind = "ask"
    /\ messages' = Append(messages, apology)
    /\ loading' = FALSE
    /\ requests' = Remove(requests, i)
    /\ UNCHANGED <<inputText, tutorRest>>

TutorInit ==
    /\ loading = FALSE
    /\ words = <<>>
    /\ quizMode = FALSE
    /\ currentQuestion = 0
    /\ questions = <<>>
    /\ selectedAnswer = null
    /\ showResult = FALSE
    /\ score = 0
    /\ answers = <<>>
    /\ questionStartTime = 0
    /\ now = 0
    /\ calls = <<>>
    /\ alerts = <<>>
    /\ nav = "mounted"
    /\ currentMode = "study"
    /\ quizType = "multiple_choice"
    /\ currentQuiz = <<>>
    /\ userAnswer = <<>>
    /\ recording = null
    /\ isRecording = FALSE
    /\ ops = <<>>
    /\ mapIndex = 0
    /\ mapResult = <<>>
    /\ TabsIdle

TutorNext ==
    \/ \E t \in TutorTexts : TutorType(t)
    \/ PressSend
    \/ \E q \in quickQuestions : PressQuickQuestion(q)
    \/ \E i \in 1..Len(requests), answer \in TutorAnswers : AskOk(i, answer)
    \/ \E i \in 1..Len(requests) : AskFail(i)

\* Every request is answered or fails: axios settles each promise.
TutorFairness ==
    WF_vars(\E i \in 1..Len(requests) :
                AskFail(i) \/ \E answer \in TutorAnswers : AskOk(i, answer))

TutorSpec == TutorInit /\ [][TutorNext]_vars /\ TutorFairness

\* ---------------------------------------------------------- CommunityScreen

\* The other cells of this module, which the community screen leaves alone.
communityRest == <<words, quizMode, currentQuestion, questions, selectedAnswer,
                   showResult, score, answers, questionStartTime, now, calls, alerts,
                   nav, advOnly, genOnly, messages, inputText, prayerTimes, nextPrayer,
                   prayerNow, prayerData, locale>>

\* community.tsx line 257.
Timeframes == {"weekly", "monthly", "all_time"}

\* user.username of the stored user (line 64).
StoredUser == "me"

\* response.data.leaderboard of GET /api/community/leaderboard for a
\* timeframe (lines 78-85): the stored user leads the week, is second of
\* the month and is not listed over all time.
Board(tf) ==
    CASE tf = "weekly"   -> <<[username |-> "me", rank |-> 1], [username |-> "other", rank |-> 2]>>
      [] tf = "monthly"  -> <<[username |-> "other", rank |-> 1], [username |-> "me", rank |-> 2]>>
      [] tf = "all_time" -> <<[username |-> "other", rank |-> 1]>>

\* Lines 88-91: find the entry of a user; userEntry?.rank || null.
RankOf(board, user) ==
    LET found == {k \in 1..Len(board) : board[k].username = user}
    IN  IF found = {} THEN <<>>
        ELSE LET first == CHOOSE k \in found : \A j \in found : k <= j
             IN  IF board[first].rank = 0 THEN <<>> ELSE <<board[first].rank>>

\* response.data.user_achievements of GET /api/achievements (line 100).
UserAchievements == {{}, {"first_word"}}

\* Lines 107-147: the list built from a reply, as id and unlocked.
achievementsList(unlockedIds) ==
    <<[id |-> "first_word", unlocked |-> "first_word" \in unlockedIds],
      [id |-> "fifty_words", unlocked |-> "fifty_words" \in unlockedIds],
      [id |-> "hundred_words", unlocked |-> "hundred_words" \in unlockedIds],
      [id |-> "streak_3", unlocked |-> FALSE],
      [id |-> "fatiha_master", unlocked |-> FALSE]>>

\* A running loadLeaderboard call (lines 75-95): the timeframe and the
\* currentUser of the render that created it, and what its caller does when
\* it returns ("none", "loading" for loadInitialData, "refreshing" for
\* onRefresh).
LeaderboardCall(tf, user, then) ==
    [kind |-> "leaderboard", timeframe |-> tf, currentUser |-> user, then |-> then]

\* A running loadAchievements call (lines 97-153).
AchievementsCall(then) ==
    [kind |-> "achievements", timeframe |-> "", currentUser |-> "", then |-> then]

\* loadInitialData waiting for AsyncStorage (line 61).
InitialCall == [kind |-> "initial", timeframe |-> "", currentUser |-> "", then |-> "none"]

\* Lines 51-57: the effect on [selectedTab, timeframe], run by the render
\* with this tab, timeframe and user.
TabEffect(tab, tf, user) ==
    IF tab = "leaderboard" THEN LeaderboardCall(tf, user, "none") ELSE AchievementsCall("none")

\* Lines 66-67 and 162: the caller's statement after the awaited load.
Return(then) ==
    /\ loading' = (IF then = "loading" THEN FALSE ELSE loading)
    /\ refreshing' = (IF then = "refreshing" THEN FALSE ELSE refreshing)

\* Lines 61-66: the stored user is read; loadLeaderboard is the one of the
\* first render, with timeframe 'weekly' and currentUser ''.
InitialUserRead(i) ==
    /\ requests[i].kind = "initial"
    /\ currentUser' = StoredUser
    /\ requests' = Append(Remove(requests, i), LeaderboardCall("weekly", "", "loading"))
    /\ UNCHANGED <<loading, refreshing, selectedTab, timeframe, leaderboard, achievements,
                   userRank, communityRest>>

\* Lines 61, 69-72: reading the stored user throws.
InitialUserFail(i) ==
    /\ requests[i].kind = "initial"
    /\ loading' = FALSE
    /\ requests' = Remove(requests, i)
    /\ UNCHANGED <<currentUser, refreshing, selectedTab, timeframe, leaderboard,
                   achievements, userRank, communityRest>>

\* Lines 75-91 on a reply.
LeaderboardOk(i) ==
    /\ requests[i].kind = "leaderboard"
    /\ leaderboard' = Board(requests[i].timeframe)
    /\ userRank' = RankOf(Board(requests[i].timeframe), requests[i].currentUser)
    /\ Return(requests[i].then)
    /\ requests' = Remove(requests, i)
    /\ UNCHANGED <<currentUser, selectedTab, timeframe, achievements, communityRest>>

\* Lines 92-94: the request throws; the error is logged.
LeaderboardFail(i) ==
    /\ requests[i].kind = "leaderboard"
    /\ Return(requests[i].then)
    /\ requests' = Remove(requests, i)
    /\ UNCHANGED <<currentUser, selectedTab, timeframe, leaderboard, achievements,
                   userRank, communityRest>>

\* Lines 97-150 on a reply.
AchievementsOk(i, unlockedIds) ==
    /\ requests[i].kind = "achievements"
    /\ achievements' = achievementsList(unlockedIds)
    /\ Return(requests[i].then)
    /\ requests' = Remove(requests, i)
    /\ UNCHANGED <<currentUser, selectedTab, timeframe, leaderboard, userRank,
                   communityRest>>

\* Lines 151-153.
AchievementsFail(i) ==
    /\ requests[i].kind = "achievements"
    /\ Return(requests[i].then)
    /\ requests' = Remove(requests, i)
    /\ UNCHANGED <<currentUser, selectedTab, timeframe, leaderboard, achievements,
                   userRank, communityRest>>

\* Line 192: the spinner replaces the screen while loading.
CommunityView == ~loading

\* Line 264: a timeframe button; the effect of lines 51-57 runs when the
\* timeframe changed.
SelectTimeframe(tf) ==
    /\ CommunityView /\ selectedTab = "leaderboard"
    /\ tf # timeframe
    /\ Len(requests) < MaxRequests
    /\ timeframe' = tf
    /\ requests' = Append(requests, TabEffect(selectedTab, tf, currentUser))
    /\ UNCHANGED <<loading, refreshing, selectedTab, currentUser, leaderboard,
                   achievements, userRank, communityRest>>

\* Lines 213, 230: a tab button; the effect runs when the tab changed.
SelectTab(tab) ==
    /\ CommunityView
    /\ tab # selectedTab
    /\ Len(requests) < MaxRequests
    /\ selectedTab' = tab
    /\ requests' = Append(requests, TabEffect(tab, timeframe, currentUser))
    /\ UNCHANGED <<loading, refreshing, timeframe, currentUser, leaderboard,
                   achievements, userRank, communityRest>>

\* Lines 156-164, 249: pull to refresh.
onRefresh ==
    /\ CommunityView /\ ~refreshing
    /\ Len(requests) < MaxRequests
    /\ refreshing' = TRUE
    /\ requests' = Append(requests,
                          IF selectedTab = "leaderboard"
                          THEN LeaderboardCall(timeframe, currentUser, "refreshing")
                          ELSE AchievementsCall("refreshing"))
    /\ UNCHANGED <<loading, selectedTab, timeframe, currentUser, leaderboard,
                   achievements, userRank, communityRest>>

\* The screen after its first render: both mount effects have run (lines
\* 47-57), loadInitialData waits for the stored user and the tab effect's
\* loadLeaderboard is out.
CommunityInit ==
    /\ loading = TRUE
    /\ words = <<>>
    /\ quizMode = FALSE
    /\ currentQuestion = 0
    /\ questions = <<>>
    /\ selectedAnswer = null
    /\ showResult = FALSE
    /\ score = 0
    /\ answers = <<>>
    /\ questionStartTime = 0
    /\ now = 0
    /\ calls = <<>>
    /\ alerts = <<>>
    /\ nav = "mounted"
    /\ currentMode = "study"
    /\ quizType = "multiple_choice"
    /\ currentQuiz = <<>>
    /\ userAnswer = <<>>
    /\ recording = null
    /\ isRecording = FALSE
    /\ ops = <<>>
    /\ mapIndex = 0
    /\ mapResult = <<>>
    /\ messages = <<greeting>>
    /\ inputText = <<>>
    /\ selectedTab = "leaderboard"
    /\ timeframe = "weekly"
    /\ leaderboard = <<>>
    /\ achievements = <<>>
    /\ userRank = <<>>
    /\ currentUser = ""
    /\ refreshing = FALSE
    /\ requests = <<InitialCall, TabEffect("leaderboard", "weekly", "")>>
    /\ prayerTimes = <<>>
    /\ nextPrayer = <<>>
    /\ prayerNow = <<0, 0, 0>>
    /\ prayerData = <<>>
    /\ locale = "en-US"

CommunityNext ==
    \/ \E i \in 1..Len(requests) : InitialUserRead(i)
    \/ \E i \in 1..Len(requests) : InitialUserFail(i)
    \/ \E i \in 1..Len(requests) : LeaderboardOk(i)
    \/ \E i \in 1..Len(requests) : LeaderboardFail(i)
    \/ \E i \in 1..Len(requests), unlockedIds \in UserAchievements : AchievementsOk(i, unlockedIds)
    \/ \E i \in 1..Len(requests) : AchievementsFail(i)
    \/ \E tf \in Timeframes : SelectTimeframe(tf)
    \/ \E tab \in {"leaderboard", "achievements"} : SelectTab(tab)
    \/ onRefresh

CommunitySpec == CommunityInit /\ [][CommunityNext]_vars

\* ------------------------------------------------------------- PrayerScreen

\* The other cells of this module, which the prayer screen leaves alone.
prayerRest == <<words, quizMode, currentQuestion, questions, selectedAnswer, showResult,
                score, answers, questionStartTime, now, calls, nav, advOnly, genOnly,
                messages, inputText, selectedTab, timeframe, leaderboard, achievements,
                userRank, currentUser, refreshing>>

\* prayer.tsx lines 110-147: the names, in the order of the list.
PrayerNames == <<"Fajr", "Sunrise", "Dhuhr", "Asr", "Maghrib", "Isha">>

\* Clock times <<hour, minute>> a timetable is made of, in ascending order.
Slots ==
    <<<<0, 30>>, <<5, 45>>, <<7, 0>>, <<12, 0>>, <<13, 15>>, <<16, 30>>, <<19, 20>>,
      <<20, 30>>, <<23, 45>>>>

\* response.data of GET /api/prayer-times (line 108): six instants of the
\* day, each later than the one before, as local clock times.
Timetables ==
    {[k \in 1..Len(PrayerNames) |-> Slots[f[k]]] :
        f \in {g \in [1..Len(PrayerNames) -> 1..MaxSlots] :
                  \A k \in 1..(Len(PrayerNames) - 1) : g[k] < g[k + 1]}}

\* new Date() of line 109, <<hour, minute, second>>: on a slot or half a
\* minute after it.
Nows == {<<Slots[k][1], Slots[k][2], s>> : k \in 1..MaxSlots, s \in {0, 30}}

\* The locale toLocaleTimeString([], ...) formats in (line 200): the
\* device's.
Locales == {"en-US", "en-GB"}

\* The day period a locale writes with hour12: "AM"/"PM" in en-US,
\* "am"/"pm" in en-GB.
DayPeriod(loc, afternoon) ==
    IF loc = "en-US" THEN (IF afternoon THEN "PM" ELSE "AM")
    ELSE (IF afternoon THEN "pm" ELSE "am")

\* Lines 199-205: formatTime.  "hh:mm period" is kept as its three parts, as
\* timeString.split(' ') and time.split(':') recover them.
formatTime(date, loc) ==
    [hours |-> IF date[1] % 12 = 0 THEN 12 ELSE date[1] % 12,
     minutes |-> date[2],
     period |-> DayPeriod(loc, date[1] >= 12)]

\* Lines 208-216: parseTime, as the seconds of today the Date stands at.
parseTime(timeString) ==
    LET hours == timeString.hours
        minutes == timeString.minutes
        period == timeString.period
        hour24 == IF period = "PM" /\ hours # 12 THEN hours + 12
                  ELSE IF period = "AM" /\ hours = 12 THEN 0 ELSE hours
    IN  (hour24 * 60 + minutes) * 60

\* A Date of today, in seconds.
Seconds(t) == (t[1] * 60 + t[2]) * 60 + t[3]

\* Lines 110-147: the list built from a reply.
prayers(data, loc) ==
    [k \in 1..Len(PrayerNames) |-> [name |-> PrayerNames[k], time |-> formatTime(data[k], loc)]]

\* Lines 150-165: the map callback applied from left to right; acc carries
\* the prayers done, nextPrayerFound and the last setNextPrayer.
RECURSIVE MapPrayers(_, _, _)
MapPrayers(ps, nowDate, acc) ==
    IF Len(acc.done) = Len(ps) THEN acc
    ELSE LET prayer == ps[Len(acc.done) + 1]
             prayerTime == parseTime(prayer.time)
             isPassed == prayerTime < Seconds(nowDate)
             isNext == ~acc.nextPrayerFound /\ ~isPassed
         IN  MapPrayers(ps, nowDate,
                        [done |-> Append(acc.done,
                                         [name |-> prayer.name, time |-> prayer.time,
                                          isPassed |-> isPassed, isNext |-> isNext]),
                         nextPrayerFound |-> acc.nextPrayerFound \/ isNext,
                         nextPrayer |-> IF isNext THEN <<prayer>> ELSE acc.nextPrayer])

\* Lines 149-173: processedPrayers and the next prayer, with the fallback
\* to Fajr.
processedPrayers(ps, nowDate) ==
    LET mapped == MapPrayers(ps, nowDate,
                             [done |-> <<>>, nextPrayerFound |-> FALSE, nextPrayer |-> nextPrayer])
    IN  IF mapped.nextPrayerFound THEN mapped
        ELSE [mapped EXCEPT !.done[1].isNext = TRUE, !.nextPrayer = <<ps[1]>>]

PermissionAlert ==
    [title |-> "Permission Required",
     message |-> "Location permission is needed to calculate accurate prayer times and Qibla direction.",
     scored |-> 0, outOf |-> 0]

LocationAlert ==
    [title |-> "Location Error",
     message |-> "Unable to get your location. Using default location (Kuala Lumpur).",
     scored |-> 0, outOf |-> 0]

\* Lines 62-68: permission is not granted.
PermissionDenied(i) ==
    /\ requests[i].kind = "permission"
    /\ alerts' = Append(alerts, PermissionAlert)
    /\ requests' = Append(Remove(requests, i), [kind |-> "prayer-times"])
    /\ UNCHANGED <<loading, prayerTimes, nextPrayer, prayerNow, prayerData, locale,
                   prayerRest>>

\* Lines 62, 70-85: permission is granted and the position is found.
LocationFound(i) ==
    /\ requests[i].kind = "permission"
    /\ requests' = Append(Remove(requests, i), [kind |-> "prayer-times"])
    /\ UNCHANGED <<loading, alerts, prayerTimes, nextPrayer, prayerNow, prayerData,
                   locale, prayerRest>>

\* Lines 87-90: asking for permission or for the position throws.
LocationError(i) ==
    /\ requests[i].kind = "permission"
    /\ alerts' = Append(alerts, LocationAlert)
    /\ requests' = Append(Remove(requests, i), [kind |-> "prayer-times"])
    /\ UNCHANGED <<loading, prayerTimes, nextPrayer, prayerNow, prayerData, locale,
                   prayerRest>>

\* Lines 96-182 on a reply.
LoadPrayerTimesOk(i) ==
    /\ requests[i].kind = "prayer-times"
    /\ LET result == processedPrayers(prayers(prayerData, locale), prayerNow)
       IN  /\ nextPrayer' = result.nextPrayer
           /\ prayerTimes' = result.done
    /\ loading' = FALSE
    /\ requests' = Remove(requests, i)
    /\ UNCHANGED <<alerts, prayerNow, prayerData, locale, prayerRest>>

\* Lines 176-181: the request throws.
LoadPrayerTimesFail(i) ==
    /\ requests[i].kind = "prayer-times"
    /\ alerts' = Append(alerts, ErrorAlert("Unable to load prayer times. Please try again."))
    /\ loading' = FALSE
    /\ requests' = Remove(requests, i)
    /\ UNCHANGED <<prayerTimes, nextPrayer, prayerNow, prayerData, locale, prayerRest>>

\* The screen after its first render (lines 37-52): requestLocationPermission
\* is running; the timetable the server will send, the clock at the reply
\* and the device's locale are the run's inputs.
PrayerInit ==
    /\ loading = TRUE
    /\ words = <<>>
    /\ quizMode = FALSE
    /\ currentQuestion = 0
    /\ questions = <<>>
    /\ selectedAnswer = null
    /\ showResult = FALSE
    /\ score = 0
    /\ answers = <<>>
    /\ questionStartTime = 0
    /\ now = 0
    /\ calls = <<>>
    /\ alerts = <<>>
    /\ nav = "mounted"
    /\ currentMode = "study"
    /\ quizType = "multiple_choice"
    /\ currentQuiz = <<>>
    /\ userAnswer = <<>>
    /\ recording = null
    /\ isRecording = FALSE
    /\ ops = <<>>
    /\ mapIndex = 0
    /\ mapResult = <<>>
    /\ messages = <<greeting>>
    /\ inputText = <<>>
    /\ selectedTab = "leaderboard"
    /\ timeframe = "weekly"
    /\ leaderboard = <<>>
    /\ achievements = <<>>
    /\ userRank = <<>>
    /\ currentUser = ""
    /\ refreshing = FALSE
    /\ requests = <<[kind |-> "permission"]>>
    /\ prayerTimes = <<>>
    /\ nextPrayer = <<>>
    /\ prayerNow \in Nows
    /\ prayerData \in Timetables
    /\ locale \in Locales

PrayerNext ==
    \/ \E i \in 1..Len(requests) : PermissionDenied(i)
    \/ \E i \in 1..Len(requests) : LocationFound(i)
    \/ \E i \in 1..Len(requests) : LocationError(i)
    \/ \E i \in 1..Len(requests) : LoadPrayerTimesOk(i)
    \/ \E i \in 1..Len(requests) : LoadPrayerTimesFail(i)

PrayerSpec == PrayerInit /\ [][PrayerNext]_vars

\* ------------------------------------------------------------------ claims

\* The completion requests that are out, with the body they carry.
Sent == {i \in 1..Len(calls) : calls[i].stage = "sent"}

\* The completion dialogs on screen.
Completed == {i \in 1..Len(alerts) : alerts[i].title = "Lesson Complete!"}

\* Number of recorded responses that are correct.
CorrectCount(as) == Cardinality({k \in 1..Len(as) : as[k].is_correct})

\* C1: the body of every completion request holds exactly one response per
\* question, in question order: response k is for the word of question k.
C1_PayloadOnePerQuestion ==
    \A i \in Sent :
        LET rs == calls[i].payload.answers
        IN  /\ Len(rs) = Len(questions)
            /\ \A k \in 1..Len(rs) : k <= Len(questions) /\ rs[k].word_id = questions[k].word.id

\* C2: the score of the completion message is the number of questions whose
\* recorded response is correct, and is at most the number of questions.
C2_FinalScoreIsCorrectCount ==
    \A i \in Completed :
        /\ alerts[i].scored = CorrectCount(answers)
        /\ alerts[i].scored <= alerts[i].outOf

\* C3: in every reachable state of the quiz, 0 <= score <= len(questions).
C3_ScoreBound == 0 <= score /\ score <= Len(questions)

\* C3 witness: every question of a two-question quiz answered correctly.
C3_Witness ==
    /\ quizMode /\ showResult
    /\ Len(questions) > 1
    /\ currentQuestion = Len(questions) - 1
    /\ score = Len(questions)

\* C4: every generated question has its correctAnswer exactly once among its
\* options, and no option twice.
C4_OptionValidity ==
    \A k \in 1..Len(questions) :
        LET q == questions[k]
        IN  /\ Count(q.options, q.correctAnswer) = 1
            /\ \A o \in Range(q.options) : Count(q.options, o) = 1

\* C5: while the result of a question is shown (its answer is submitted and
\* the quiz has not advanced), no step records another response or changes score.
C5_SecondSubmitRefused ==
    [][showResult => (Len(answers') = Len(answers) /\ score' = score)]_vars

\* C6: quiz mode is entered only with a non-empty question sequence, and no
\* render reads a question from an empty one.
C6_EmptyStartRejected ==
    /\ quizMode => questions # <<>>
    /\ nav # "crashed"

\* C7: the quiz advances (to the next question, or to completion) only from the
\* answer-submitted state and not once completion is under way.
C7_AdvanceOnlyAfterSubmit ==
    [][(currentQuestion' # currentQuestion \/ Len(calls') > Len(calls))
         => (showResult /\ calls = <<>>)]_vars

\* C8: a step that records a response, changes score or shows the result is a
\* submission of the selected answer a on question i: isCorrect is
\* (a = correctAnswer of question i), score grows by 1 if isCorrect and by 0
\* otherwise, exactly one response is appended, for question i's word and with
\* that isCorrect, the result is shown and currentQuestion is unchanged.
C8_SubmitEffect ==
    [][(answers' # answers \/ score' # score \/ (~showResult /\ showResult'))
         => LET q  == questions[currentQuestion + 1]
                ok == selectedAnswer = q.correctAnswer
            IN  /\ selectedAnswer # null
                /\ score' = score + (IF ok THEN 1 ELSE 0)
                /\ Len(answers') = Len(answers) + 1
                /\ SubSeq(answers', 1, Len(answers)) = answers
                /\ answers'[Len(answers')].word_id = q.word.id
                /\ answers'[Len(answers')].is_correct = ok
                /\ showResult'
                /\ currentQuestion' = currentQuestion
                /\ selectedAnswer' = selectedAnswer]_vars

\* C8 witness: a correct and then a wrong answer were submitted.
C8_Witness ==
    /\ showResult
    /\ Len(answers) = 2
    /\ answers[1].is_correct /\ ~answers[2].is_correct
    /\ score = 1
    /\ currentQuestion = 1

\* C9: a step that changes currentQuestion, hides the result or starts the
\* completion is taken with the result of question i shown, and leaves score and
\* responses alone; if i + 1 < len(questions) it moves to question i + 1 with the
\* selection cleared and the result hidden, and starts no completion; otherwise
\* it keeps i, the selection and the shown result, and starts one completion.
C9_NextEffect ==
    [][(currentQuestion' # currentQuestion \/ (showResult /\ ~showResult')
          \/ Len(calls') > Len(calls))
         => /\ showResult
            /\ score' = score
            /\ answers' = answers
            /\ IF currentQuestion + 1 < Len(questions)
               THEN /\ currentQuestion' = currentQuestion + 1
                    /\ selectedAnswer' = null
                    /\ ~showResult'
                    /\ calls' = calls
               ELSE /\ currentQuestion' = currentQuestion
                    /\ selectedAnswer' = selectedAnswer
                    /\ showResult'
                    /\ Len(calls') = Len(calls) + 1
                    /\ SubSeq(calls', 1, Len(calls)) = calls]_vars

\* C9 witness: the quiz advanced to its second question and, from there, a
\* completion was started on the last question.
C9_Witness ==
    /\ currentQuestion = 1
    /\ currentQuestion = Len(questions) - 1
    /\ showResult
    /\ calls # <<>>

\* C10: the total time of every completion request is the sum of the elapsed
\* seconds of the responses it carries.
C10_TotalTimeIsSum ==
    \A i \in Sent :
        calls[i].payload.total_time = SumTime(calls[i].payload.answers)

\* C11: completeLesson invoked twice on the same completed quiz sends the same
\* request body both times (the same responses with the same is_correct and
\* time_spent, the same total time) and reports the same score.
C11_FinalizeIdempotent ==
    /\ \A i, j \in Sent : calls[i].payload = calls[j].payload
    /\ \A i, j \in 1..Len(calls) : FinalScore(calls[i]) = FinalScore(calls[j])

\* C12: a completion is started only from the mounted quiz with the last
\* question on screen and its answer submitted (one response per question);
\* a learner who has left stays away, so no completion starts after leaving.
C12_CompleteOnlyWhenDone ==
    [][/\ Len(calls') > Len(calls)
            => /\ nav = "mounted" /\ quizMode /\ showResult
               /\ currentQuestion = Len(questions) - 1
               /\ Len(answers) = Len(questions)
       /\ nav = "back" => nav' = "back"]_vars

\* C12 witness: the learner left a two-question quiz after one answer, and no
\* completion is running.
C12_Witness ==
    /\ nav = "back" /\ quizMode
    /\ Len(questions) = 2 /\ Len(answers) = 1
    /\ calls = <<>>

\* C13: currentQuestion changes only by +1, only in an advance from a shown
\* result (which clears the selection and hides the result), and while a
\* question is displayed it lies in 0 .. len(questions) - 1.
C13_IndexMonotonic ==
    [][/\ currentQuestion' # currentQuestion
            => /\ currentQuestion' = currentQuestion + 1
               /\ showResult /\ ~showResult'
               /\ selectedAnswer' = null
               /\ answers' = answers /\ score' = score /\ calls' = calls
       /\ (quizMode' /\ questions' # <<>>)
            => (0 <= currentQuestion' /\ currentQuestion' <= Len(questions') - 1)]_vars

\* C13 witness: the quiz moved to its second question, which awaits an answer.
C13_Witness ==
    /\ quizMode /\ currentQuestion = 1
    /\ ~showResult /\ selectedAnswer = null
    /\ Len(answers) = 1

\* C15: a submission refused for want of a selection (the alert goes up) leaves
\* the session as it was, and while a result stays displayed neither the
\* selection nor the question index changes.
C15_RefusalChangesNothing ==
    [][/\ (Len(alerts') > Len(alerts) /\ alerts'[Len(alerts')] = SelectAlert)
            => (selectedAnswer = null /\ UNCHANGED session)
       /\ (showResult /\ showResult')
            => (selectedAnswer' = selectedAnswer /\ currentQuestion' = currentQuestion)]_vars

\* C15 witness: a submission without a selection was refused on the second
\* question, after a first question answered in order.
C15_Witness ==
    /\ alerts # <<>> /\ alerts[Len(alerts)] = SelectAlert
    /\ currentQuestion = 1 /\ Len(answers) = 1 /\ ~showResult

\* C18: while the result is displayed the selection does not change, and the
\* feedback the render computes (selectedAnswer = correctAnswer, line 175) is
\* the is_correct of the response recorded last, which is the current question's.
C18_FeedbackMatchesResponse ==
    [][/\ (showResult /\ showResult') => selectedAnswer' = selectedAnswer
       /\ showResult'
            => LET q == questions'[currentQuestion' + 1]
                   r == answers'[Len(answers')]
               IN  /\ answers' # <<>>
                   /\ r.word_id = q.word.id
                   /\ r.is_correct = (selectedAnswer' = q.correctAnswer)]_vars

\* C18 witness: a wrong answer is on display on the second question.
C18_Witness ==
    /\ showResult /\ currentQuestion = 1
    /\ selectedAnswer # questions[2].correctAnswer
    /\ ~answers[2].is_correct

\* C20: the quiz has one question per vocabulary item, in lesson order, and
\* each question's correctAnswer is its own item's meaning.
C20_OneQuestionPerWord ==
    quizMode =>
        /\ Len(questions) = Len(words)
        /\ \A k \in 1..Len(questions) :
              /\ questions[k].word = words[k]
              /\ questions[k].correctAnswer = words[k].meaning

\* C20 witness: a quiz over two words of different meanings.
C20_Witness ==
    /\ quizMode /\ Len(questions) = 2
    /\ words[1].meaning # words[2].meaning

\* C14: for a list of n words with pairwise distinct meanings every generated
\* question has exactly min(4, n) options; with fewer than four words they are
\* the meanings of all the words.
C14_OptionCount ==
    (mapResult # <<>> /\ DistinctMeanings(words)) =>
        LET q == mapResult[1]
            n == Len(words)
        IN  /\ Len(q.options) = Min(WrongCount + 1, n)
            /\ n <= WrongCount + 1
                 => Range(q.options) = {words[i].meaning : i \in 1..n}

\* C14 witness: a question with four options generated from five words of
\* distinct meanings.
C14_Witness ==
    /\ mapResult # <<>>
    /\ Len(words) = WrongCount + 2 /\ DistinctMeanings(words)
    /\ Len(mapResult[1].options) = WrongCount + 1

\* The lesson was saved: the 'Lesson Complete!' dialog is up.
LessonComplete ==
    \E k \in 1..Len(alerts) : alerts[k].title = "Lesson Complete!"

\* C17: a started quiz of n >= 1 questions, with a learner who keeps selecting,
\* submitting and advancing and a save that succeeds, leads to completion;
\* at completion there are exactly n responses, one per question index in
\* increasing order; and while the quiz view is up one of select, submit and
\* advance is on offer.
C17_QuizCompletes ==
    /\ (nav = "mounted" /\ quizMode /\ questions # <<>>) ~> LessonComplete
    /\ [](LessonComplete =>
            /\ Len(answers) = Len(questions)
            /\ \A k \in 1..Len(answers) : answers[k].word_id = questions[k].word.id)
    /\ []((nav = "mounted" /\ quizMode /\ questions # <<>> /\ alerts = <<>>)
            => (OptionEnabled \/ SubmitEnabled \/ NextEnabled))

\* C17 witness: a two-question quiz completed with two responses.
C17_Witness ==
    /\ LessonComplete
    /\ Len(questions) = 2 /\ Len(answers) = 2
    /\ currentQuestion = 1

C21_QuestionsFixed ==
    [][/\ quizMode => questions' = questions
       /\ questions' # questions => (~quizMode /\ quizMode' /\ words' = words)
       /\ (quizMode \/ quizMode') => words' = words]_vars

\* C21 witness: a two-question quiz answered to the end with its completion
\* request out.
C21_Witness ==
    /\ quizMode /\ Len(questions) = 2 /\ Len(answers) = 2
    /\ \E i \in 1..Len(calls) : calls[i].stage = "sent"

\* The completion failed: its error dialog is up.
SaveFailed(as) ==
    as # <<>> /\ as[Len(as)] = ErrorAlert("Failed to save progress")

\* C22: a failed completion raises the error dialog and leaves the session
\* as it was, on the last question with its result displayed; the success
\* dialog goes up only in the step that answers a request that was sent, and
\* a dialog navigates back only if it is the success dialog.
C22_FailedSaveKeepsQuiz ==
    [][/\ (Len(alerts') > Len(alerts) /\ SaveFailed(alerts'))
            => /\ UNCHANGED <<session, words, nav>>
               /\ quizMode' /\ showResult'
               /\ currentQuestion' = Len(questions') - 1
       /\ (Len(alerts') > Len(alerts) /\ alerts'[Len(alerts')].title = "Lesson Complete!")
            => \E i \in 1..Len(calls) :
                  calls[i].stage = "sent" /\ calls' = Remove(calls, i)
       /\ (nav = "mounted" /\ nav' = "back" /\ alerts # <<>>)
            => Head(alerts).title = "Lesson Complete!"]_vars

\* C22 witness: the save failed on a two-question quiz, which still shows the
\* result of its last question.
C22_Witness ==
    /\ SaveFailed(alerts) /\ nav = "mounted"
    /\ Len(questions) = 2 /\ currentQuestion = 1 /\ showResult

\* A recording's analysis that is no longer for the question on screen: the
\* learner moved on, or the quiz was replaced.
StaleAnalysis(op) ==
    op.kind = "stop" /\ (op.index # currentQuestion \/ ~op.sameQuiz)

\* C23: the step that ends a stale analysis, whatever its reply, leaves the
\* result flag and the score as they were.
C23_StaleAnalysisIgnored ==
    [][\A i \in 1..Len(ops) :
          (StaleAnalysis(ops[i]) /\ ops' = Remove(ops, i))
              => (showResult' = showResult /\ score' = score)]_vars

\* C24: whenever a question of the current quiz is on screen (and so whenever
\* one is graded), the selected quizType is the quiz_type the quiz was
\* created with.
C24_TypeMatchesQuiz ==
    AdvQuizView => quizType = currentQuiz[1].quiz_type

\* The startAdvancedQuiz requests among the requests in flight.
QuizRequests(os) == {k \in 1..Len(os) : os[k].kind = "quiz"}

\* C25: the step that ends a startAdvancedQuiz request either fails (the
\* 'Failed to create quiz' dialog goes up; mode, quiz, index, score and answer
\* stay) or installs a quiz from the reply in quiz mode at index 0 with score
\* 0, an empty answer and the result hidden; loading is false after both.
C25_StartQuizOutcome ==
    [][Cardinality(QuizRequests(ops')) < Cardinality(QuizRequests(ops))
          => /\ ~loading'
             /\ IF Len(alerts') > Len(alerts)
                THEN /\ alerts'[Len(alerts')] = ErrorAlert("Failed to create quiz")
                     /\ UNCHANGED <<currentMode, currentQuiz, currentQuestion, score,
                                    userAnswer>>
                ELSE /\ currentMode' = "quiz"
                     /\ currentQuiz' # <<>>
                     /\ [questions |-> currentQuiz'[1].questions] \in QuizReplies
                     /\ currentQuestion' = 0 /\ score' = 0
                     /\ userAnswer' = <<>> /\ ~showResult']_vars

\* C25 witness: a restart failed during a quiz with a point scored, which is
\* still there.
C25_Witness ==
    /\ \E k \in 1..Len(alerts) : alerts[k] = ErrorAlert("Failed to create quiz")
    /\ currentQuiz # <<>> /\ score > 0 /\ ~loading

\* The part of a text between its first and its last character that is not
\* a blank.
Core(t) ==
    LET inked == {k \in 1..Len(t) : t[k] # " "}
    IN  IF inked = {} THEN <<>>
        ELSE SubSeq(t, CHOOSE k \in inked : \A m \in inked : k <= m,
                       CHOOSE k \in inked : \A m \in inked : m <= k)

\* The same letter, in either case.
SameLetter(x, y) ==
    x = y \/ {x, y} = {"a", "A"} \/ {x, y} = {"b", "B"}

\* Two texts equal but for letter case and surrounding blanks.
EqualIgnoringCaseAndBlanks(t, u) ==
    /\ Len(Core(t)) = Len(Core(u))
    /\ \A k \in 1..Len(Core(t)) : SameLetter(Core(t)[k], Core(u)[k])

\* What C26 calls a correct answer.
GradedCorrect(type, answer, q) ==
    \/ type = "multiple_choice" /\ answer = q.correct_answer
    \/ /\ type \in {"fill_blank", "writing"}
       /\ q.answer # undefined
       /\ EqualIgnoringCaseAndBlanks(answer, q.answer)

\* C26: a step of submitAnswer that changes the score or shows the result is
\* never one of a voice_recognition quiz; it adds 1 to the score exactly when
\* the answer is correct for the quiz type, shows the result, and changes
\* nothing else.
C26_SubmitGrades ==
    [][(showResult' /\ ops' = ops /\ (score' # score \/ ~showResult))
          => /\ quizType # "voice_recognition"
             /\ score' = score + (IF GradedCorrect(quizType, userAnswer, AdvQuestion)
                                  THEN 1 ELSE 0)
             /\ UNCHANGED <<currentQuiz, currentQuestion, userAnswer, quizType,
                            currentMode, alerts, loading, nav>>]_vars

\* C26 witness: a fill-blank or writing answer typed in upper case with a
\* trailing blank was graded correct on the first question.
C26_Witness ==
    /\ showResult /\ score = 1 /\ currentQuestion = 0
    /\ quizType \in {"fill_blank", "writing"}
    /\ userAnswer = <<"A", " ">>
    /\ currentQuiz # <<>> /\ AdvQuestion.answer = <<" ", "A">>

\* A step that issues a tutor request.
AskIssued == Len(requests') > Len(requests)

\* A step on which a tutor request completes.
AskSettled == Len(requests') < Len(requests)

\* A text with something other than blanks in it.
NotBlank(t) == \E k \in 1..Len(t) : t[k] # " "

\* The chat after the greeting: a question, its reply, a question, ...
Alternating == \A k \in 2..Len(messages) : messages[k].isUser <=> (k % 2 = 0)

\* C27: a tutor request is issued only when none is outstanding, loading is
\* false and the text is not blank, and the step appends exactly the user
\* message carrying that text; a request that completes appends exactly one
\* tutor message (the answer or the apology) and leaves loading false; every
\* outstanding request completes; messages are only ever appended, one user
\* message then one tutor message.
C27_TutorChat ==
    /\ [][/\ AskIssued
             => /\ requests = <<>> /\ ~loading
                /\ Len(requests') = 1
                /\ NotBlank(requests'[1].question)
                /\ messages' = Append(messages, [text |-> requests'[1].question,
                                                 isUser |-> TRUE])
          /\ AskSettled
             => /\ \E m \in {apology} \cup {[text |-> a, isUser |-> FALSE] : a \in TutorAnswers} :
                      messages' = Append(messages, m)
                /\ ~loading'
                /\ requests' = <<>>
          /\ messages' # messages
             => /\ SubSeq(messages', 1, Len(messages)) = messages
                /\ AskIssued \/ AskSettled]_vars
    /\ [](Alternating /\ (loading <=> requests # <<>>) /\ (loading <=> Len(messages) % 2 = 0))
    /\ \A n \in 1..MaxExchanges :
          (loading /\ Len(messages) = 2 * n)
              ~> (~loading /\ Len(messages) > 2 * n /\ ~messages[2 * n + 1].isUser)

\* C27 witness: two questions were asked; the first request failed and got
\* the apology, the second was answered.
C27_Witness ==
    /\ ~loading /\ Len(messages) = 5
    /\ messages[2].isUser /\ messages[3] = apology
    /\ messages[4].isUser /\ messages[5].text \in TutorAnswers

\* The loadLeaderboard calls still running, with the loadInitialData that
\* has yet to make its call.
LeaderboardPending ==
    {i \in 1..Len(requests) : requests[i].kind \in {"initial", "leaderboard"}}

\* C28: once no leaderboard request is outstanding, the leaderboard on screen
\* is the one of the selected timeframe and the rank shown is the user's rank
\* in it.
C28_LeaderboardCurrent ==
    (CommunityView /\ selectedTab = "leaderboard" /\ LeaderboardPending = {})
        => /\ leaderboard = Board(timeframe)
           /\ userRank = RankOf(Board(timeframe), currentUser)

\* The clock time a listed time reads as, in seconds of the day: 12 in the
\* morning is midnight, 12 in the afternoon is noon.
ListedSeconds(time) ==
    (((time.hours % 12) + (IF time.period \in {"PM", "pm"} THEN 12 ELSE 0)) * 60
        + time.minutes) * 60

\* The listed times that have not passed at the clock read by the load.
NotPassed ==
    {k \in 1..Len(prayerTimes) : ListedSeconds(prayerTimes[k].time) >= Seconds(prayerNow)}

\* C29: after a successful load exactly one listed time is marked isNext and
\* it is the stored nextPrayer; it is the earliest listed time that has not
\* passed, with every time listed before it marked isPassed, or Fajr when
\* all six have passed.
C29_NextPrayer ==
    prayerTimes # <<>>
        => /\ Len(prayerTimes) = Len(PrayerNames)
           /\ Cardinality({k \in 1..Len(prayerTimes) : prayerTimes[k].isNext}) = 1
           /\ \A k \in 1..Len(prayerTimes) :
                 prayerTimes[k].isNext
                     => /\ nextPrayer = <<[name |-> prayerTimes[k].name,
                                           time |-> prayerTimes[k].time]>>
                        /\ IF NotPassed = {}
                           THEN prayerTimes[k].name = "Fajr"
                           ELSE /\ k \in NotPassed
                                /\ \A j \in NotPassed :
                                      ListedSeconds(prayerTimes[k].time)
                                          <= ListedSeconds(prayerTimes[j].time)
                                /\ \A j \in 1..(k - 1) : prayerTimes[j].isPassed

====
